---------------------------- MODULE Spec2Model ----------------------------
(***************************************************************************)
(* Model of f3, the FTP-to-S3 bridge: the capability parser                *)
(* (parseFeatureSet), the driver factory, the S3Driver adapter methods and *)
(* the legacy (version 2) request signer.                                  *)
(*                                                                         *)
(* Go strings are modelled as sequences of one-character strings, so that  *)
(* trimming, splitting, prefix tests and joins are computed, character by  *)
(* character, the way the standard library computes them.                  *)
(***************************************************************************)
EXTENDS Integers, Sequences, FiniteSets, TLC

VARIABLES
    featureSet,    \* FactoryConfig.FtpFeatures, the text handed to parseFeatureSet
    parsed,        \* what parseFeatureSet returned for featureSet (NotParsed before the call)
    featureFlags,  \* DriverFactory.featureFlags, copied into every S3Driver
    noOverwrite,   \* DriverFactory.noOverwrite, copied into every S3Driver
    bucketURL,     \* Path of the one url.URL that DriverFactory.bucketURL and every S3Driver.bucketURL point to
    cwd,           \* cwd[c]: the cwd field of the S3Driver value held for connection c
    store,         \* the bucket: store[k] = 0 when no object is stored under k, else its content
    last,          \* the adapter call that has just returned, with what it did and returned;
                   \* NoCall once the protocol engine has taken the result
    req,           \* the outgoing store request handed to the legacy signer, and what Sign made of it
    put            \* put[c]: the PutFile call in progress on connection c, when its steps interleave

vars == <<featureSet, parsed, featureFlags, noOverwrite, bucketURL, cwd, store, last, req, put>>

(***************************************************************************)
(* Bounds of the model.                                                    *)
(***************************************************************************)
NumConns == 2
MaxData == 2
MaxTokens == 2

Conns == 1..NumConns

(***************************************************************************)
(* Strings.                                                                *)
(***************************************************************************)
Upper == <<"A","B","C","D","E","F","G","H","I","J","K","L","M","N","O","P","Q","R","S","T","U","V","W","X","Y","Z">>
Lower == <<"a","b","c","d","e","f","g","h","i","j","k","l","m","n","o","p","q","r","s","t","u","v","w","x","y","z">>

\* unicode.IsSpace restricted to the characters of the model
IsSpace(ch) == ch \in {" ", "\t", "\n", "\r"}

\* unicode.ToLower on one character
ToLowerCh(ch) ==
    IF \E i \in 1..Len(Upper) : Upper[i] = ch
    THEN Lower[CHOOSE i \in 1..Len(Upper) : Upper[i] = ch]
    ELSE ch

\* strings.ToLower
ToLower(s) == [i \in 1..Len(s) |-> ToLowerCh(s[i])]

\* strings.TrimSpace: drops the leading and the trailing white space
RECURSIVE TrimLeft(_)
TrimLeft(s) ==
    IF s # <<>> /\ IsSpace(Head(s)) THEN TrimLeft(Tail(s)) ELSE s

RECURSIVE TrimRight(_)
TrimRight(s) ==
    IF s # <<>> /\ IsSpace(s[Len(s)]) THEN TrimRight(SubSeq(s, 1, Len(s) - 1)) ELSE s

TrimSpace(s) == TrimRight(TrimLeft(s))

\* strings.Split(s, sep) for a one-character sep: always at least one element
RECURSIVE SplitFrom(_, _, _)
SplitFrom(s, sep, cur) ==
    IF s = <<>> THEN <<cur>>
    ELSE IF Head(s) = sep THEN <<cur>> \o SplitFrom(Tail(s), sep, <<>>)
    ELSE SplitFrom(Tail(s), sep, Append(cur, Head(s)))

Split(s, sep) == SplitFrom(s, sep, <<>>)

\* strings.HasPrefix
HasPrefix(s, p) == Len(p) <= Len(s) /\ SubSeq(s, 1, Len(p)) = p

\* strings.TrimPrefix
TrimPrefix(s, p) == IF HasPrefix(s, p) THEN SubSeq(s, Len(p) + 1, Len(s)) ELSE s

\* strings.Contains for a one-character substring
Contains(s, ch) == \E i \in 1..Len(s) : s[i] = ch

(***************************************************************************)
(* Capability flags.                                                       *)
(***************************************************************************)
featureChangeDir == 1
featureList == 2
featureRemoveDir == 4
featureRemove == 8
featureMove == 16
featureMakeDir == 32
featureGet == 64
featurePut == 128

\* Go's & and | on non-negative ints
RECURSIVE BitAnd(_, _)
BitAnd(a, b) ==
    IF a = 0 \/ b = 0 THEN 0
    ELSE 2 * BitAnd(a \div 2, b \div 2) + (IF a % 2 = 1 /\ b % 2 = 1 THEN 1 ELSE 0)

RECURSIVE BitOr(_, _)
BitOr(a, b) ==
    IF a = 0 THEN b
    ELSE IF b = 0 THEN a
    ELSE 2 * BitOr(a \div 2, b \div 2) + (IF a % 2 = 1 \/ b % 2 = 1 THEN 1 ELSE 0)

\* the case labels of parseFeatureSet's switch
W_cd == <<"c","d">>
W_ls == <<"l","s">>
W_rmdir == <<"r","m","d","i","r">>
W_rm == <<"r","m">>
W_mv == <<"m","v">>
W_mkdir == <<"m","k","d","i","r">>
W_get == <<"g","e","t">>
W_put == <<"p","u","t">>

DefaultFeatureSet == W_ls

\* the switch of parseFeatureSet: the bit of one lower-cased token, 0 for the default branch
FeatureBit_put_as_get(w) ==
    CASE w = W_cd -> featureChangeDir
      [] w = W_ls -> featureList
      [] w = W_rmdir -> featureRemoveDir
      [] w = W_rm -> featureRemove
      [] w = W_mv -> featureMove
      [] w = W_mkdir -> featureMakeDir
      [] w = W_get -> featureGet
      [] w = W_put -> featureGet
      [] OTHER -> 0

FeatureBit(w) ==
    CASE w = W_cd -> featureChangeDir
      [] w = W_ls -> featureList
      [] w = W_rmdir -> featureRemoveDir
      [] w = W_rm -> featureRemove
      [] w = W_mv -> featureMove
      [] w = W_mkdir -> featureMakeDir
      [] w = W_get -> featureGet
      [] w = W_put -> featurePut
      [] OTHER -> 0

\* the loop of parseFeatureSet over the split tokens
RECURSIVE ParseLoop(_, _)
ParseLoop(features, flags) ==
    IF features = <<>> THEN [flags |-> flags, err |-> "nil"]
    ELSE LET bit == FeatureBit(ToLower(Head(features)))
         IN  IF bit = 0
             THEN [flags |-> 0, err |-> "UnknownFeatureFlag"]
             ELSE ParseLoop(Tail(features), BitOr(flags, bit))

parseFeatureSet(fs) ==
    LET trimmed == TrimSpace(fs)
    IN  IF trimmed = <<>>
        THEN [flags |-> 0, err |-> "EmptyFeatureSet"]
        ELSE ParseLoop(Split(trimmed, ","), 0)

(***************************************************************************)
(* Paths and the shared bucket URL.                                        *)
(***************************************************************************)
\* strings.Join(elems, "/")
RECURSIVE JoinSlash(_)
JoinSlash(elems) ==
    IF elems = <<>> THEN <<>>
    ELSE IF Len(elems) = 1 THEN Head(elems)
    ELSE Head(elems) \o <<"/">> \o JoinSlash(Tail(elems))

\* filepath.Clean for paths that hold no "." and no ".." element (the model's
\* alphabet has no dot): repeated separators collapse, a trailing separator goes
Clean(p) ==
    LET elems == SelectSeq(Split(p, "/"), LAMBDA e : e # <<>>)
        body == JoinSlash(elems)
        out == IF p # <<>> /\ Head(p) = "/" THEN <<"/">> \o body ELSE body
    IN  IF out = <<>> THEN <<".">> ELSE out

\* filepath.Join(a, b): empty elements are ignored, the rest joined and cleaned
Join(a, b) ==
    IF a = <<>> /\ b = <<>> THEN <<>>
    ELSE IF a = <<>> THEN Clean(b)
    ELSE IF b = <<>> THEN Clean(a)
    ELSE Clean(a \o <<"/">> \o b)

\* url.URL.String() without its constant scheme://host part: a path that does
\* not start with a separator gets one
URLString(p) == IF p # <<>> /\ Head(p) # "/" THEN <<"/">> \o p ELSE p

\* S3Driver.fqdn: u is the pointer d.bucketURL, so "u.Path = ..." writes the URL
\* object shared with the factory and every other driver; path is what is left
\* in it, str what is returned
fqdn(c, key) ==
    LET p == Join(cwd[c], key)
    IN  [path |-> p, str |-> URLString(p)]

(***************************************************************************)
(* The object store as the adapter sees it.  Every store call either       *)
(* answers from the bucket contents or fails with an AWS error code.       *)
(***************************************************************************)
AwsFailures == {"Forbidden"}

Contents == 1..MaxData

\* content stored under k, 0 when there is none
ObjectAt(s, k) == IF k \in DOMAIN s THEN s[k] ELSE 0

\* ContentLength of an object
ContentLength(v) == v

HeadBucketOutcomes == {"ok"} \cup AwsFailures
HeadObjectOutcomes(s, k) == (IF ObjectAt(s, k) # 0 THEN {"ok"} ELSE {"NotFound"}) \cup AwsFailures
GetObjectOutcomes(s, k) == (IF ObjectAt(s, k) # 0 THEN {"ok"} ELSE {"NoSuchKey"}) \cup AwsFailures
DeleteObjectOutcomes == {"ok"} \cup AwsFailures
ListObjectsOutcomes == {"ok"} \cup AwsFailures
UploadOutcomes == {"ok", "ReadFailed"}
SinkOutcomes == {"ok", "failed"}

\* byte order of the characters that keys are made of
Rank(ch) ==
    IF ch = "/" THEN 0
    ELSE CHOOSE i \in 1..Len(Lower) : Lower[i] = ch

RECURSIVE KeyLess(_, _)
KeyLess(a, b) ==
    IF a = <<>> THEN b # <<>>
    ELSE IF b = <<>> THEN FALSE
    ELSE IF Head(a) = Head(b) THEN KeyLess(Tail(a), Tail(b))
    ELSE Rank(Head(a)) < Rank(Head(b))

RECURSIVE SortKeys(_)
SortKeys(S) ==
    IF S = {} THEN <<>>
    ELSE LET m == CHOOSE x \in S : \A y \in S \ {x} : KeyLess(x, y)
         IN  <<m>> \o SortKeys(S \ {m})

\* resp.Contents of ListObjects: the stored keys, in the store's (byte) order
ListContents(s) == SortKeys({k \in DOMAIN s : s[k] # 0})

(***************************************************************************)
(* Records of adapter calls.                                               *)
(***************************************************************************)
\* conn, op, key, data, append: the call; err, code, size, name, isPrefix, body,
\* entries: what it returned (code is the AWS error code or the verb named in the
\* error, entries what ListDir handed to its callback); calls, answers: the
\* store calls it issued, in order, and what the store answered; sent: its calls
\* of the metrics sink; fq: the last string fqdn returned to it; logURL: the
\* bucket URL as bucketCheck logged it
NoCall ==
    [conn |-> 0, op |-> "none", key |-> <<>>, data |-> 0, append |-> FALSE,
     err |-> "nil", code |-> "", size |-> 0, name |-> <<>>, isPrefix |-> FALSE,
     body |-> 0, calls |-> <<>>, answers |-> <<>>, fq |-> <<>>, sent |-> <<>>,
     entries |-> <<>>, logURL |-> <<>>]

Call(c, op, key) == [NoCall EXCEPT !.conn = c, !.op = op, !.key = key]

\* r after one more store call and its answer
Issued(r, call, answer) ==
    [r EXCEPT !.calls = Append(r.calls, call), !.answers = Append(r.answers, answer)]

\* notEnabled(op)
notEnabled(r, op) == [r EXCEPT !.err = "NotEnabled", !.code = op]

\* what a handler leaves behind: its return record and the shared state after it
Effect(r, s, u) == [ret |-> r, store |-> s, url |-> u]

\* S3Driver.bucketCheck, given the outcome of HeadBucket: r with the call
\* issued and, when it failed, the wrapped error and the URL that was logged
bucketCheck(r, hb) ==
    LET r1 == Issued(r, "HeadBucket", hb)
    IN  IF hb # "ok"
        THEN [r1 EXCEPT !.err = "BucketCheckFailed", !.code = hb, !.logURL = URLString(bucketURL)]
        ELSE r1

(***************************************************************************)
(* The adapter methods.  Each operator computes one whole call from its    *)
(* arguments and the outcomes of the store and sink calls it may make: the *)
(* record returned, the bucket contents and the shared URL afterwards.     *)
(***************************************************************************)
\* the capability tests at the head of ListDir, DeleteFile, GetFile and PutFile
listDenied == BitAnd(featureFlags, featureList) = 0

removeDenied_tests_removeDir == BitAnd(featureFlags, featureRemoveDir) = 0
removeDenied == BitAnd(featureFlags, featureRemove) = 0

getDenied == BitAnd(featureFlags, featureGet) = 0
putDenied == BitAnd(featureFlags, featurePut) = 0

\* err.Code() == "NotFound" in Stat
isNotFound_tests_NoSuchKey(code) == code = "NoSuchKey"
isNotFound(code) == code = "NotFound"

\* S3Driver.Stat
Stat(c, key, hb, ho) ==
    LET r0 == bucketCheck(Call(c, "Stat", key), hb)
    IN  IF r0.err # "nil"
        THEN Effect(r0, store, bucketURL)
        ELSE LET f == fqdn(c, key)
                 r1 == [Issued(r0, "HeadObject", ho) EXCEPT !.fq = f.str]
             IN  IF ho # "ok" /\ isNotFound(ho)
                 THEN Effect([r1 EXCEPT !.name = key, !.isPrefix = TRUE, !.size = 0],
                             store, f.path)
                 ELSE IF ho # "ok"
                 THEN Effect([r1 EXCEPT !.err = "aws", !.code = ho], store, f.path)
                 ELSE Effect([r1 EXCEPT !.name = key, !.isPrefix = TRUE,
                                        !.size = ContentLength(ObjectAt(store, key))],
                             store, f.path)

\* S3Driver.ChangeDir: the receiver d is a copy of the driver value, so the
\* assignment d.cwd = path changes the copy and the copy is dropped at return
ChangeDir(c, path) ==
    LET d == [cwd |-> cwd[c]]
        dAssigned == [d EXCEPT !.cwd = path]
    IN  [ret |-> Call(c, "ChangeDir", path), logged |-> dAssigned.cwd, cwd |-> cwd]

\* the body of ListDir's loop for one object key: the entry it hands to the
\* callback, or skip for a continue
ListEntry(prefixKey, objKey, size, folders) ==
    IF prefixKey # <<>> /\ ~HasPrefix(objKey, prefixKey)
    THEN [skip |-> TRUE]
    ELSE LET name1 == IF prefixKey # <<>> THEN TrimPrefix(objKey, prefixKey) ELSE objKey
             trimName == TrimPrefix(name1, <<"/">>)
             isPrefix == Contains(trimName, "/")
             name2 == IF isPrefix THEN Split(name1, "/")[1] ELSE name1
             finalName == TrimPrefix(name2, <<"/">>)
         IN  IF isPrefix /\ finalName \in folders
             THEN [skip |-> TRUE]
             ELSE [skip |-> FALSE, raw |-> name2,
                   entry |-> [name |-> finalName, size |-> size, isPrefix |-> isPrefix]]

\* ListDir's loop over resp.Contents: the entries handed to the callback, in order
RECURSIVE ListLoop(_, _, _, _)
ListLoop(prefixKey, contents, s, folders) ==
    IF contents = <<>> THEN <<>>
    ELSE LET e == ListEntry(prefixKey, Head(contents), ContentLength(s[Head(contents)]), folders)
         IN  IF e.skip
             THEN ListLoop(prefixKey, Tail(contents), s, folders)
             ELSE <<e>> \o ListLoop(prefixKey, Tail(contents), s,
                                    IF e.entry.isPrefix THEN folders \cup {e.entry.name} ELSE folders)

\* S3Driver.ListDir; failAt is the index of the last entry for which the
\* callback returned an error (0: none did), calling d.fqdn(name) for the log
ListDir(c, key, hb, lo, failAt) ==
    LET r0 == Call(c, "ListDir", key)
        rb == bucketCheck(r0, hb)
    IN  IF listDenied
        THEN Effect(notEnabled(r0, "LS"), store, bucketURL)
        ELSE IF rb.err # "nil"
        THEN Effect(rb, store, bucketURL)
        ELSE IF lo # "ok"
        THEN LET f == fqdn(c, key)
             IN  Effect([Issued(rb, "ListObjects", lo) EXCEPT !.err = "aws", !.code = lo, !.fq = f.str],
                        store, f.path)
        ELSE LET prefixKey == TrimPrefix(key, <<"/">>)
                 out == ListLoop(prefixKey, ListContents(store), store, {})
                 n == IF failAt <= Len(out) THEN failAt ELSE 0
                 r1 == [Issued(rb, "ListObjects", lo) EXCEPT
                           !.entries = [i \in 1..Len(out) |-> out[i].entry]]
             IN  IF n = 0
                 THEN Effect(r1, store, bucketURL)
                 ELSE LET f == fqdn(c, out[n].raw)
                      IN  Effect([r1 EXCEPT !.fq = f.str], store, f.path)

\* S3Driver.DeleteDir, Rename, MakeDir
DeleteDir(c, key) == Effect(notEnabled(Call(c, "DeleteDir", key), "RMDIR"), store, bucketURL)

Rename_when_move_enabled(c, oldKey, newKey) ==
    IF BitAnd(featureFlags, featureMove) = 0
    THEN Effect(notEnabled(Call(c, "Rename", oldKey), "MV"), store, bucketURL)
    ELSE Effect(Call(c, "Rename", oldKey), store, bucketURL)
Rename(c, oldKey, newKey) == Effect(notEnabled(Call(c, "Rename", oldKey), "MV"), store, bucketURL)

MakeDir(c, key) == Effect(notEnabled(Call(c, "MakeDir", key), "MKDIR"), store, bucketURL)

\* S3Driver.DeleteFile
DeleteFile(c, key, do) ==
    LET r0 == Call(c, "DeleteFile", key)
    IN  IF removeDenied
        THEN Effect(notEnabled(r0, "RM"), store, bucketURL)
        ELSE LET f == fqdn(c, key)
                 r1 == [Issued(r0, "DeleteObject", do) EXCEPT !.fq = f.str]
             IN  IF do # "ok"
                 THEN Effect([r1 EXCEPT !.err = "aws", !.code = do], store, f.path)
                 ELSE Effect(r1,
                             IF key \in DOMAIN store THEN [store EXCEPT ![key] = 0] ELSE store,
                             f.path)

\* d.metrics.SendGet / SendPut: one call of the sink, with its outcome
SinkCall(kind, size, sk) == [kind |-> kind, size |-> size, result |-> sk]

\* what GetFile and PutFile do with the error of the sink: log it, return r
afterSink_returns_error(r, sk) ==
    IF sk # "ok" THEN [r EXCEPT !.err = "MetricsFailed", !.size = -1] ELSE r
afterSink(r, sk) == r

\* S3Driver.GetFile
GetFile(c, key, go, sk) ==
    LET r0 == Call(c, "GetFile", key)
    IN  IF getDenied
        THEN Effect([notEnabled(r0, "GET") EXCEPT !.size = -1], store, bucketURL)
        ELSE LET f == fqdn(c, key)
                 r1 == [Issued(r0, "GetObject", go) EXCEPT !.fq = f.str]
             IN  IF go # "ok"
                 THEN Effect([r1 EXCEPT !.err = "aws", !.code = go, !.size = 0], store, f.path)
                 ELSE LET size == ContentLength(ObjectAt(store, key))
                          r2 == [r1 EXCEPT !.size = size, !.body = ObjectAt(store, key),
                                           !.sent = <<SinkCall("get", size, sk)>>]
                      IN  Effect(afterSink(r2, sk), store, f.path)

\* S3Driver.objectExists, given the outcome of its HeadObject: any error,
\* NotFound or not, answers false
objectExists(ho) == ho = "ok"

\* S3Driver.objectSize, given the outcome of its HeadObject
objectSize_zero_on_error(s, key, ho) ==
    IF ho # "ok" THEN [size |-> 0, err |-> "SizeFailed"]
    ELSE [size |-> ContentLength(ObjectAt(s, key)), err |-> "nil"]
objectSize(s, key, ho) ==
    IF ho # "ok" THEN [size |-> -1, err |-> "SizeFailed"]
    ELSE [size |-> ContentLength(ObjectAt(s, key)), err |-> "nil"]

\* the store after Upload of data under key succeeded
Uploaded_if_absent(s, key, data) ==
    IF ObjectAt(s, key) # 0 THEN s ELSE [s EXCEPT ![key] = data]
Uploaded(s, key, data) == [s EXCEPT ![key] = data]

\* the appendMode test of PutFile
appendRejected_never(appendMode) == FALSE
appendRejected(appendMode) == appendMode

\* S3Driver.PutFile; data = 0 is a nil reader, ho1 the outcome of the
\* existence probe, up of Upload, ho2 of the size probe, sk of SendPut
PutFile(c, key, data, appendMode, ho1, up, ho2, sk) ==
    LET r0 == [Call(c, "PutFile", key) EXCEPT !.data = data, !.append = appendMode, !.size = -1]
    IN  IF putDenied
        THEN Effect(notEnabled(r0, "PUT"), store, bucketURL)
        ELSE IF data = 0
        THEN Effect([r0 EXCEPT !.err = "EmptyData"], store, bucketURL)
        ELSE LET f == fqdn(c, key)
                 r1 == [r0 EXCEPT !.fq = f.str]
                 r2 == IF noOverwrite THEN Issued(r1, "HeadObject", ho1) ELSE r1
             IN  IF appendRejected(appendMode)
                 THEN Effect([r1 EXCEPT !.err = "AppendUnsupported"], store, f.path)
                 ELSE IF noOverwrite /\ objectExists(ho1)
                 THEN Effect([r2 EXCEPT !.err = "Conflict"], store, f.path)
                 ELSE IF up # "ok"
                 THEN Effect([Issued(r2, "Upload", up) EXCEPT !.err = "UploadFailed"], store, f.path)
                 ELSE LET s2 == Uploaded(store, key, data)
                          sz == objectSize(s2, key, ho2)
                          r3 == [Issued(Issued(r2, "Upload", up), "HeadObject", ho2) EXCEPT
                                    !.size = sz.size]
                      IN  IF sz.err # "nil"
                          THEN Effect([r3 EXCEPT !.err = sz.err, !.code = ho2], s2, f.path)
                          ELSE Effect(afterSink([r3 EXCEPT !.sent = <<SinkCall("put", sz.size, sk)>>], sk),
                                      s2, f.path)

(***************************************************************************)
(* Inputs of the model.                                                    *)
(***************************************************************************)
K_a == <<"a">>
K_da == <<"d", "/", "a">>
K_ra == <<"r", "/", "a">>
K_rsb == <<"r", "/", "s", "/", "b">>
K_rsc == <<"r", "/", "s", "/", "c">>
K_ox == <<"o", "/", "x">>

\* keys of the objects that the calls of Spec read and write
Keys == {K_a, K_da}
\* arguments of ChangeDir
CdPaths == {<<"/", "d">>}
\* the bucket of the listing runs and the prefixes listed there
ListKeys == {K_ra, K_rsb, K_rsc, K_ox}
ListPrefixes ==
    {<<>>, <<"/">>, <<"r">>, <<"r", "/">>, <<"/", "r">>, <<"/", "r", "/">>,
     <<"r", "/", "s">>, <<"r", "/", "s", "/">>, <<"o", "/">>}

\* strings.Join(words, ",")
RECURSIVE JoinComma(_)
JoinComma(words) ==
    IF words = <<>> THEN <<>>
    ELSE IF Len(words) = 1 THEN Head(words)
    ELSE Head(words) \o <<",">> \o JoinComma(Tail(words))

\* --features values the factory of the adapter runs is built from
FeatureSpecs ==
    {JoinComma(ws) : ws \in
        {<<DefaultFeatureSet>>, <<W_ls, W_get>>, <<W_get, W_put>>, <<W_put>>, <<W_rm, W_ls>>,
         <<W_ls, W_rm, W_get, W_put>>, <<W_cd, W_rmdir, W_mv, W_mkdir>>,
         <<W_cd, W_ls, W_rmdir, W_rm, W_mv, W_mkdir, W_get, W_put>>}}

(***************************************************************************)
(* Adapter calls as actions: any connection may make any call.             *)
(***************************************************************************)
Apply(e) ==
    /\ last = NoCall
    /\ last' = e.ret
    /\ store' = e.store
    /\ bucketURL' = e.url
    /\ UNCHANGED <<featureSet, parsed, featureFlags, noOverwrite, cwd, req, put>>

DoStat(c) ==
    \E key \in DOMAIN store, hb \in HeadBucketOutcomes :
        \E ho \in HeadObjectOutcomes(store, key) : Apply(Stat(c, key, hb, ho))

DoChangeDir(c) ==
    \E path \in CdPaths :
        LET e == ChangeDir(c, path)
        IN  /\ last = NoCall
            /\ last' = e.ret
            /\ cwd' = e.cwd
            /\ UNCHANGED <<featureSet, parsed, featureFlags, noOverwrite, bucketURL, store, req, put>>

DoListDir(c, prefixes) ==
    \E key \in prefixes, hb \in HeadBucketOutcomes, lo \in ListObjectsOutcomes :
        \E failAt \in 0..Cardinality(DOMAIN store) : Apply(ListDir(c, key, hb, lo, failAt))

DoDeleteDir(c) == \E key \in DOMAIN store : Apply(DeleteDir(c, key))

DoRename(c) == \E oldKey \in DOMAIN store, newKey \in DOMAIN store : Apply(Rename(c, oldKey, newKey))

DoMakeDir(c) == \E key \in DOMAIN store : Apply(MakeDir(c, key))

DoDeleteFile(c) ==
    \E key \in DOMAIN store, do \in DeleteObjectOutcomes : Apply(DeleteFile(c, key, do))

DoGetFile(c) ==
    \E key \in DOMAIN store, sk \in SinkOutcomes :
        \E go \in GetObjectOutcomes(store, key) : Apply(GetFile(c, key, go, sk))

DoPutFile(c) ==
    \E key \in DOMAIN store, data \in 0..MaxData, appendMode \in BOOLEAN,
       up \in UploadOutcomes, sk \in SinkOutcomes :
        \E ho1 \in HeadObjectOutcomes(store, key), ho2 \in {"ok"} \cup AwsFailures :
            Apply(PutFile(c, key, data, appendMode, ho1, up, ho2, sk))

\* no PutFile is in progress on the connection
IdlePut ==
    [pc |-> "idle", key |-> <<>>, data |-> 0, probe |-> "none", replaced |-> -1, ret |-> NoCall]

(***************************************************************************)
(* The legacy (version 2) signer.                                          *)
(***************************************************************************)
\* no request has been handed to the signer
NoRequest == [signed |-> FALSE]

Digits == {"0", "1", "2", "3", "4", "5", "6", "7", "8", "9"}
IsLetter(ch) == \E i \in 1..Len(Lower) : Lower[i] = ch \/ Upper[i] = ch

\* unicode.ToUpper on one character
ToUpperCh(ch) ==
    IF \E i \in 1..Len(Lower) : Lower[i] = ch
    THEN Upper[CHOOSE i \in 1..Len(Lower) : Lower[i] = ch]
    ELSE ch

\* strings.Join(elems, sep)
RECURSIVE StringsJoin(_, _)
StringsJoin(elems, sep) ==
    IF elems = <<>> THEN <<>>
    ELSE IF Len(elems) = 1 THEN Head(elems)
    ELSE Head(elems) \o sep \o StringsJoin(Tail(elems), sep)

\* byte order of the characters of lower-cased header names: '-' sorts before
\* the digits, the digits before the letters
ByteRank(ch) ==
    IF ch = "-" THEN 0
    ELSE IF ch \in Digits THEN 1
    ELSE 2 + CHOOSE i \in 1..Len(Lower) : Lower[i] = ch

\* a < b for Go strings
RECURSIVE StrLess(_, _)
StrLess(a, b) ==
    IF b = <<>> THEN FALSE
    ELSE IF a = <<>> THEN TRUE
    ELSE IF Head(a) = Head(b) THEN StrLess(Tail(a), Tail(b))
    ELSE ByteRank(Head(a)) < ByteRank(Head(b))

RECURSIVE InsertSorted(_, _)
InsertSorted(x, l) ==
    IF l = <<>> THEN <<x>>
    ELSE IF StrLess(Head(l), x) THEN <<Head(l)>> \o InsertSorted(x, Tail(l))
    ELSE <<x>> \o l

RECURSIVE SortLoop(_)
SortLoop(l) == IF l = <<>> THEN <<>> ELSE InsertSorted(Head(l), SortLoop(Tail(l)))

\* sort.Strings
sort_Strings_keeps_order(l) == l
sort_Strings(l) == SortLoop(l)

\* http.CanonicalHeaderKey: the first letter and every letter after a hyphen in
\* upper case, the rest in lower case
CanonicalHeaderKey(s) ==
    [i \in 1..Len(s) |-> IF i = 1 \/ s[i - 1] = "-" THEN ToUpperCh(s[i]) ELSE ToLowerCh(s[i])]

\* %XX of the characters of the model that get escaped
PercentHex(ch) ==
    CASE ch = " " -> <<"%", "2", "0">>
      [] ch = "+" -> <<"%", "2", "B">>
      [] ch = "/" -> <<"%", "2", "F">>
      [] ch = "=" -> <<"%", "3", "D">>
      [] ch = "?" -> <<"%", "3", "F">>
      [] ch = "&" -> <<"%", "2", "6">>
      [] ch = ":" -> <<"%", "3", "A">>

\* characters that neither rest.EscapePath nor url.QueryEscape touches
Unreserved(ch) == IsLetter(ch) \/ ch \in Digits \/ ch \in {"-", "_", ".", "~"}

\* rest.EscapePath(path, false): the separator is kept
RECURSIVE EscapePath(_)
EscapePath(path) ==
    IF path = <<>> THEN <<>>
    ELSE (IF Unreserved(Head(path)) \/ Head(path) = "/" THEN <<Head(path)>> ELSE PercentHex(Head(path)))
         \o EscapePath(Tail(path))

\* url.QueryEscape: a space becomes '+'
RECURSIVE QueryEscape(_)
QueryEscape(t) ==
    IF t = <<>> THEN <<>>
    ELSE (IF Unreserved(Head(t)) THEN <<Head(t)>>
          ELSE IF Head(t) = " " THEN <<"+">>
          ELSE PercentHex(Head(t)))
         \o QueryEscape(Tail(t))

\* strings.Replace(t, "+", "%20", -1)
RECURSIVE ReplacePlus(_)
ReplacePlus(t) ==
    IF t = <<>> THEN <<>>
    ELSE (IF Head(t) = "+" THEN <<"%", "2", "0">> ELSE <<Head(t)>>) \o ReplacePlus(Tail(t))

\* uri[0:strings.Index(uri, "?")] when there is a question mark
RECURSIVE BeforeQuestionMark(_)
BeforeQuestionMark(uri) ==
    IF uri = <<>> \/ Head(uri) = "?" THEN <<>>
    ELSE <<Head(uri)>> \o BeforeQuestionMark(Tail(uri))

\* http.Header.Get: the first value stored under the canonical form of name
HeaderGet(h, name) ==
    LET k == CanonicalHeaderKey(name)
    IN  IF k \in DOMAIN h /\ h[k] # <<>> THEN h[k][1] ELSE <<>>

\* http.Header.Set: one value under the canonical form of name
HeaderSet(h, name, value) ==
    LET k == CanonicalHeaderKey(name)
    IN  [x \in DOMAIN h \cup {k} |-> IF x = k THEN <<value>> ELSE h[x]]

\* http.Header.Del
HeaderDel(h, name) ==
    [x \in DOMAIN h \ {CanonicalHeaderKey(name)} |-> h[x]]

\* url.Values: has the query a value under key, and Values.Get, its first value
QueryHas(q, key) == \E i \in 1..Len(q) : q[i].k = key
QueryGet(q, key) ==
    IF QueryHas(q, key) THEN q[CHOOSE i \in 1..Len(q) : q[i].k = key /\ \A j \in 1..(i - 1) : q[j].k # key].v
    ELSE <<>>

\* the sub-resource names, in the order of the list
subresources ==
    <<<<"a", "c", "l">>,
      <<"d", "e", "l", "e", "t", "e">>,
      <<"l", "i", "f", "e", "c", "y", "c", "l", "e">>,
      <<"l", "o", "c", "a", "t", "i", "o", "n">>,
      <<"l", "o", "g", "g", "i", "n", "g">>,
      <<"n", "o", "t", "i", "f", "i", "c", "a", "t", "i", "o", "n">>,
      <<"p", "a", "r", "t", "N", "u", "m", "b", "e", "r">>,
      <<"p", "o", "l", "i", "c", "y">>,
      <<"r", "e", "q", "u", "e", "s", "t", "P", "a", "y", "m", "e", "n", "t">>,
      <<"t", "o", "r", "r", "e", "n", "t">>,
      <<"u", "p", "l", "o", "a", "d", "I", "d">>,
      <<"u", "p", "l", "o", "a", "d", "s">>,
      <<"v", "e", "r", "s", "i", "o", "n", "I", "d">>,
      <<"v", "e", "r", "s", "i", "o", "n", "i", "n", "g">>,
      <<"v", "e", "r", "s", "i", "o", "n", "s">>,
      <<"w", "e", "b", "s", "i", "t", "e">>>>

\* the names of the headers the signer reads and writes
H_ContentMD5 == <<"C", "o", "n", "t", "e", "n", "t", "-", "M", "D", "5">>
H_ContentType == <<"C", "o", "n", "t", "e", "n", "t", "-", "T", "y", "p", "e">>
H_Date == <<"x", "-", "a", "m", "z", "-", "d", "a", "t", "e">>
H_SecurityToken == <<"x", "-", "a", "m", "z", "-", "s", "e", "c", "u", "r", "i", "t", "y", "-", "t", "o", "k", "e", "n">>
H_Authorization == <<"A", "u", "t", "h", "o", "r", "i", "z", "a", "t", "i", "o", "n">>
VendorPrefix == <<"x", "-", "a", "m", "z", "-">>

\* v2.Time.UTC().Format(timeFormat): the text of instant t, a different text
\* for a different instant
TimeFormat(t) == IF t = 1 THEN <<"T", "1">> ELSE <<"T", "2">>

\* base64 of the HMAC-SHA1 of msg under key, kept symbolic: a different key or
\* a different message gives a different text
HmacSha1Base64(key, msg) == <<"{">> \o key \o <<"|">> \o msg \o <<"}">>

\* Sign, the uri: the path part of URL.Opaque ("//host/path?query") when the
\* URL has one, else URL.Path
SignedURI(r) ==
    IF r.opaque # <<>>
    THEN LET parts == Split(BeforeQuestionMark(r.opaque), "/")
         IN  <<"/">> \o StringsJoin(SubSeq(parts, 4, Len(parts)), <<"/">>)
    ELSE r.path

\* strings.SplitN(v2.Request.URL.Host, ".", 2)[0]
FirstHostLabel(host) == Split(host, ".")[1]

\* Sign, the path before the query is appended
SignedPath_without_host(r) ==
    LET path == EscapePath(SignedURI(r))
    IN  IF path = <<>> THEN <<"/">> ELSE path
SignedPath(r) ==
    LET uri == SignedURI(r)
        path == IF ~r.pathStyle THEN <<"/">> \o FirstHostLabel(r.host) \o uri
                ELSE EscapePath(uri)
    IN  IF path = <<>> THEN <<"/">> ELSE path

\* Sign, the loop over subresources: queryKeysAndValues
RECURSIVE QueryLoop(_, _)
QueryLoop(names, q) ==
    IF names = <<>> THEN <<>>
    ELSE LET key == Head(names)
             k == ReplacePlus(QueryEscape(key))
             v == ReplacePlus(QueryEscape(QueryGet(q, key)))
         IN  (IF QueryHas(q, key)
              THEN <<k \o (IF v # <<>> THEN <<"=">> \o v ELSE v)>>
              ELSE <<>>)
             \o QueryLoop(Tail(names), q)

\* Sign, the query string
SignedQuery_in_request_order(q) ==
    LET sel == SelectSeq(q, LAMBDA e : \E i \in 1..Len(subresources) : subresources[i] = e.k)
    IN  StringsJoin([i \in 1..Len(sel) |->
                        sel[i].k \o (IF sel[i].v # <<>>
                                     THEN <<"=">> \o ReplacePlus(QueryEscape(sel[i].v))
                                     ELSE <<>>)],
                    <<"&">>)
SignedQuery(q) == StringsJoin(QueryLoop(subresources, q), <<"&">>)

\* Sign, the path with its query suffix
CanonicalResource(r) ==
    LET query == SignedQuery(r.query)
    IN  SignedPath(r) \o (IF query # <<>> THEN <<"?">> \o query ELSE <<>>)

\* Sign, the header of the request before the loop over it: the date and
\* the session token set, a signature of an earlier attempt deleted
PreparedHeader(r) ==
    LET h1 == HeaderSet(r.header, H_Date, TimeFormat(r.time))
        h2 == IF r.cred.token # <<>> THEN HeaderSet(h1, H_SecurityToken, r.cred.token) ELSE h1
    IN  HeaderDel(h2, H_Authorization)

\* the orders in which a range over a Go map with these keys may visit them
RECURSIVE Orders(_)
Orders(S) ==
    IF S = {} THEN {<<>>}
    ELSE UNION {{<<x>> \o o : o \in Orders(S \ {x})} : x \in S}

\* Sign, the loop over the header visiting the keys in the order ord, and
\* the lines made of the sorted names
VendorNames(ord) ==
    SelectSeq([i \in 1..Len(ord) |-> ToLower(ord[i])], LAMBDA k : HasPrefix(k, VendorPrefix))

HeaderLine(h, k) ==
    LET key == CanonicalHeaderKey(k)
    IN  k \o <<":">> \o StringsJoin(IF key \in DOMAIN h THEN h[key] ELSE <<>>, <<",">>)

HeaderLines(h, ord) ==
    LET headers == sort_Strings(VendorNames(ord))
    IN  [i \in 1..Len(headers) |-> HeaderLine(h, headers[i])]

\* signer.Sign, the range over the header taking the order ord
Sign(r, ord) ==
    IF r.cred.kind = "failing" THEN [r EXCEPT !.err = "CredentialsError"]
    ELSE
    LET contentMD5 == HeaderGet(r.header, H_ContentMD5)
        contentType == HeaderGet(r.header, H_ContentType)
        h == PreparedHeader(r)
        tmp == <<r.method, contentMD5, contentType, <<>>>> \o HeaderLines(h, ord)
                   \o <<CanonicalResource(r)>>
        stringToSign == StringsJoin(tmp, <<"\n">>)
        signature == HmacSha1Base64(r.cred.secret, stringToSign)
    IN  [r EXCEPT !.header = HeaderSet(h, H_Authorization,
                                       <<"A", "W", "S", " ">> \o r.cred.access \o <<":">> \o signature),
                  !.stringToSign = stringToSign,
                  !.signature = signature]

\* SignV2: anonymous credentials leave the request alone
SignV2(r, ord) ==
    IF r.cred.kind = "anonymous" THEN r ELSE Sign(r, ord)

\* Path of the configured bucket URL (https://bucket.host has none)
InitialBucketURL == <<>>

\* the state right after NewDriverFactory (setupFtp stores the flags that
\* parseFeatureSet returned without error) and one NewDriver per connection
InitDrivers ==
    /\ featureSet \in FeatureSpecs
    /\ parsed = parseFeatureSet(featureSet)
    /\ parsed.err = "nil"
    /\ featureFlags = parsed.flags
    /\ bucketURL = InitialBucketURL
    /\ cwd = [c \in Conns |-> <<>>]
    /\ last = NoCall
    /\ req = NoRequest
    /\ put = [c \in Conns |-> IdlePut]

Init ==
    /\ InitDrivers
    /\ noOverwrite \in BOOLEAN
    /\ store \in [Keys -> 0..MaxData]

\* the protocol engine takes the result of the call that returned
Return ==
    /\ last # NoCall
    /\ last' = NoCall
    /\ UNCHANGED <<featureSet, parsed, featureFlags, noOverwrite, bucketURL, cwd, store, req, put>>

Next ==
    \/ Return
    \/ \E c \in Conns :
        \/ DoStat(c)
        \/ DoChangeDir(c)
        \/ DoListDir(c, {<<"/">>, <<"d", "/">>})
        \/ DoDeleteDir(c)
        \/ DoRename(c)
        \/ DoMakeDir(c)
        \/ DoDeleteFile(c)
        \/ DoGetFile(c)
        \/ DoPutFile(c)

Spec == Init /\ [][Next]_vars

(***************************************************************************)
(* Parsing runs: NewDriverFactory on one --features text.                  *)
(***************************************************************************)
NotParsed == [flags |-> 0, err |-> "pending"]

\* pieces the feature texts are made of: the eight verbs, upper-case spellings,
\* and pieces that are no verb (empty, blank, padded, unknown)
TokenPool ==
    {W_cd, W_ls, W_rmdir, W_rm, W_mv, W_mkdir, W_get, W_put,
     <<"L", "S">>, <<"G", "e", "t">>, <<>>, <<" ">>, <<" ", "l", "s">>, <<"l", "s", " ">>,
     <<"x", "x">>, <<"l">>}

FeatureInputs ==
    {JoinComma(ts) : ts \in UNION {[1..n -> TokenPool] : n \in 0..MaxTokens}}

InitParse ==
    /\ featureSet \in FeatureInputs
    /\ parsed = NotParsed
    /\ featureFlags = 0
    /\ noOverwrite = FALSE
    /\ bucketURL = InitialBucketURL
    /\ cwd = [c \in Conns |-> <<>>]
    /\ store = [k \in Keys |-> 0]
    /\ last = NoCall
    /\ req = NoRequest
    /\ put = [c \in Conns |-> IdlePut]

\* setupFtp: parseFeatureSet, and the flags stored in the factory when it succeeded
DoParse ==
    /\ parsed = NotParsed
    /\ parsed' = parseFeatureSet(featureSet)
    /\ featureFlags' = IF parsed'.err = "nil" THEN parsed'.flags ELSE featureFlags
    /\ UNCHANGED <<featureSet, noOverwrite, bucketURL, cwd, store, last, req, put>>

NextParse == DoParse

SpecParse == InitParse /\ [][NextParse]_vars

(***************************************************************************)
(* Listing runs: ListDir over every bucket made of ListKeys.               *)
(***************************************************************************)
InitList ==
    /\ InitDrivers
    /\ BitAnd(featureFlags, featureList) # 0
    /\ noOverwrite = FALSE
    /\ store \in [ListKeys -> 0..1]

NextList ==
    \/ Return
    \/ \E c \in Conns : DoListDir(c, ListPrefixes)

SpecList == InitList /\ [][NextList]_vars

(***************************************************************************)
(* Signing runs: SignV2 on one outgoing store request.                     *)
(***************************************************************************)
\* headers and query parameters of a request, taken together
MaxParts == 2

\* headers a request may carry when it reaches the signer, under the keys
\* that Header.Set and Header.Add store them under
HeaderPool ==
    {[k |-> <<"C", "o", "n", "t", "e", "n", "t", "-", "M", "d", "5">>, v |-> <<<<"m">>>>],
     [k |-> <<"C", "o", "n", "t", "e", "n", "t", "-", "T", "y", "p", "e">>, v |-> <<<<"t">>>>],
     [k |-> <<"X", "-", "A", "m", "z", "-", "A", "c", "l">>, v |-> <<<<"p">>>>],
     [k |-> <<"X", "-", "A", "m", "z", "-", "M", "e", "t", "a", "-", "A">>, v |-> <<<<"v">>, <<"w">>>>],
     [k |-> <<"X", "-", "A", "m", "z", "-", "D", "a", "t", "e">>, v |-> <<<<"o">>>>],
     [k |-> <<"A", "u", "t", "h", "o", "r", "i", "z", "a", "t", "i", "o", "n">>, v |-> <<<<"s">>>>]}

HeaderOf(hs) == [x \in {e.k : e \in hs} |-> (CHOOSE e \in hs : e.k = x).v]

\* query parameters, as url.URL.Query() returns them
QueryPool ==
    {[k |-> <<"a", "c", "l">>, v |-> <<>>],
     [k |-> <<"a", "c", "l">>, v |-> <<"z">>],
     [k |-> <<"d", "e", "l", "e", "t", "e">>, v |-> <<>>],
     [k |-> <<"u", "p", "l", "o", "a", "d", "I", "d">>, v |-> <<"a", " ", "b">>],
     [k |-> <<"p", "r", "e", "f", "i", "x">>, v |-> <<"x">>]}

\* the queries of at most n different parameters of the pool, in any order
RECURSIVE QueriesUpTo(_)
QueriesUpTo(n) ==
    IF n = 0 THEN {<<>>}
    ELSE LET shorter == QueriesUpTo(n - 1)
         IN  shorter \cup {Append(q, e) : q \in shorter, e \in QueryPool}

Queries == {q \in QueriesUpTo(MaxParts) : \A i, j \in 1..Len(q) : i # j => q[i] # q[j]}

\* method, URL and time of the requests: the bucket in the path, the bucket
\* in the host name, the bucket root, and an opaque URL
RequestShapes ==
    {[method |-> <<"G", "E", "T">>, opaque |-> <<>>, path |-> <<"/", "b", "/", "a", " ", "c">>, host |-> <<"s", "3", ".", "x">>, time |-> 1],
     [method |-> <<"P", "U", "T">>, opaque |-> <<>>, path |-> <<"/", "a", " ", "c">>, host |-> <<"b", ".", "s", "3", ".", "x">>, time |-> 2],
     [method |-> <<"G", "E", "T">>, opaque |-> <<>>, path |-> <<>>, host |-> <<"b", ".", "s", "3", ".", "x">>, time |-> 1],
     [method |-> <<"P", "U", "T">>, opaque |-> <<"/", "/", "s", "3", ".", "x", "/", "b", "/", "a", "?", "x">>, path |-> <<"/", "z">>, host |-> <<"s", "3", ".", "x">>, time |-> 1]}

CredentialValues ==
    {[kind |-> "anonymous", access |-> <<>>, secret |-> <<>>, token |-> <<>>],
     [kind |-> "failing", access |-> <<>>, secret |-> <<>>, token |-> <<>>],
     [kind |-> "static", access |-> <<"K">>, secret |-> <<"S">>, token |-> <<>>],
     [kind |-> "static", access |-> <<"K">>, secret |-> <<"S">>, token |-> <<"k">>]}

\* a request built by the storage client, not yet signed
NewRequest(shape, hs, q, pathStyle, cred) ==
    [method |-> shape.method, opaque |-> shape.opaque, path |-> shape.path, host |-> shape.host,
     time |-> shape.time, header |-> HeaderOf(hs), query |-> q, pathStyle |-> pathStyle,
     cred |-> cred, stringToSign |-> <<>>, signature |-> <<>>, err |-> "nil"]

InitSign ==
    /\ featureSet = DefaultFeatureSet
    /\ parsed = parseFeatureSet(featureSet)
    /\ featureFlags = parsed.flags
    /\ noOverwrite = FALSE
    /\ bucketURL = InitialBucketURL
    /\ cwd = [c \in Conns |-> <<>>]
    /\ store = [k \in Keys |-> 0]
    /\ last = NoCall
    /\ put = [c \in Conns |-> IdlePut]
    /\ \E shape \in RequestShapes, q \in Queries, pathStyle \in BOOLEAN, cred \in CredentialValues :
         \E hs \in {x \in SUBSET HeaderPool : Cardinality(x) + Len(q) <= MaxParts} :
            req = NewRequest(shape, hs, q, pathStyle, cred)

\* the Sign handler of the storage client runs SignV2 on the request; it runs
\* again when the request is retried
DoSign ==
    /\ \E ord \in Orders(DOMAIN PreparedHeader(req)) : req' = SignV2(req, ord)
    /\ UNCHANGED <<featureSet, parsed, featureFlags, noOverwrite, bucketURL, cwd, store, last, put>>

NextSign == DoSign

SpecSign == InitSign /\ [][NextSign]_vars

(***************************************************************************)
(* Upload runs: PutFile one store call at a time, so that the calls of two *)
(* connections interleave as the goroutines of two FTP sessions do.        *)
(***************************************************************************)
\* the connection's PutFile has returned r
PutDone(c, r) == put' = [put EXCEPT ![c].pc = "done", ![c].ret = r]

\* PutFile up to its first store call: the gate, the nil test, fqdn and the
\* append test
PutStart(c) ==
    /\ put[c].pc = "idle"
    /\ \E key \in DOMAIN store, data \in 0..MaxData, appendMode \in BOOLEAN :
        LET r0 == [Call(c, "PutFile", key) EXCEPT !.data = data, !.append = appendMode, !.size = -1]
            f == fqdn(c, key)
            r1 == [r0 EXCEPT !.fq = f.str]
            p == [put[c] EXCEPT !.key = key, !.data = data]
        IN  IF putDenied
            THEN /\ put' = [put EXCEPT ![c] = [p EXCEPT !.pc = "done", !.ret = notEnabled(r0, "PUT")]]
                 /\ UNCHANGED bucketURL
            ELSE IF data = 0
            THEN /\ put' = [put EXCEPT ![c] = [p EXCEPT !.pc = "done", !.ret = [r0 EXCEPT !.err = "EmptyData"]]]
                 /\ UNCHANGED bucketURL
            ELSE /\ bucketURL' = f.path
                 /\ IF appendRejected(appendMode)
                    THEN put' = [put EXCEPT ![c] =
                                    [p EXCEPT !.pc = "done", !.ret = [r1 EXCEPT !.err = "AppendUnsupported"]]]
                    ELSE put' = [put EXCEPT ![c] =
                                    [p EXCEPT !.pc = IF noOverwrite THEN "probe" ELSE "upload", !.ret = r1]]
    /\ UNCHANGED <<featureSet, parsed, featureFlags, noOverwrite, cwd, store, last, req>>

\* d.noOverwrite && d.objectExists(key)
PutProbe(c) ==
    /\ put[c].pc = "probe"
    /\ \E ho1 \in HeadObjectOutcomes(store, put[c].key) :
        LET r2 == Issued(put[c].ret, "HeadObject", ho1)
        IN  IF objectExists(ho1)
            THEN put' = [put EXCEPT ![c].pc = "done", ![c].probe = ho1, ![c].ret = [r2 EXCEPT !.err = "Conflict"]]
            ELSE put' = [put EXCEPT ![c].pc = "upload", ![c].probe = ho1, ![c].ret = r2]
    /\ UNCHANGED <<featureSet, parsed, featureFlags, noOverwrite, bucketURL, cwd, store, last, req>>

\* uploader.Upload
PutUpload(c) ==
    /\ put[c].pc = "upload"
    /\ \E up \in UploadOutcomes :
        LET r3 == Issued(put[c].ret, "Upload", up)
        IN  IF up # "ok"
            THEN /\ PutDone(c, [r3 EXCEPT !.err = "UploadFailed"])
                 /\ UNCHANGED store
            ELSE /\ store' = Uploaded(store, put[c].key, put[c].data)
                 /\ put' = [put EXCEPT ![c].pc = "size", ![c].ret = r3,
                                       ![c].replaced = ObjectAt(store, put[c].key)]
    /\ UNCHANGED <<featureSet, parsed, featureFlags, noOverwrite, bucketURL, cwd, last, req>>

\* d.objectSize(key) and d.metrics.SendPut(size)
PutSize(c) ==
    /\ put[c].pc = "size"
    /\ \E ho2 \in HeadObjectOutcomes(store, put[c].key), sk \in SinkOutcomes :
        LET sz == objectSize(store, put[c].key, ho2)
            r4 == [Issued(put[c].ret, "HeadObject", ho2) EXCEPT !.size = sz.size]
        IN  IF sz.err # "nil"
            THEN PutDone(c, [r4 EXCEPT !.err = sz.err, !.code = ho2])
            ELSE PutDone(c, afterSink([r4 EXCEPT !.sent = <<SinkCall("put", sz.size, sk)>>], sk))
    /\ UNCHANGED <<featureSet, parsed, featureFlags, noOverwrite, bucketURL, cwd, store, last, req>>

\* the protocol engine takes the result; the connection may upload again
PutReturn(c) ==
    /\ put[c].pc = "done"
    /\ put' = [put EXCEPT ![c] = IdlePut]
    /\ UNCHANGED <<featureSet, parsed, featureFlags, noOverwrite, bucketURL, cwd, store, last, req>>

\* one factory that allows uploads and one that does not; the bucket starts
\* with at most one of the keys taken
InitRace ==
    /\ InitDrivers
    /\ featureSet \in {W_put, DefaultFeatureSet}
    /\ noOverwrite \in BOOLEAN
    /\ store \in {s \in [Keys -> 0..1] : \E k \in Keys : s[k] = 0}

\* the two FTP sessions that upload; further connections stay idle
Racers == {c \in Conns : c <= 2}

NextRace ==
    \E c \in Racers :
        \/ PutStart(c)
        \/ PutProbe(c)
        \/ PutUpload(c)
        \/ PutSize(c)
        \/ PutReturn(c)

SpecRace == InitRace /\ [][NextRace]_vars

(***************************************************************************)
(* Properties.                                                             *)
(***************************************************************************)
\* the store call named call was issued by the recorded call and answered ok
Answered(r, call, answer) ==
    \E i \in 1..Len(r.calls) : r.calls[i] = call /\ r.answers[i] = answer

Issues(r, call) == \E i \in 1..Len(r.calls) : r.calls[i] = call

\* r is the not-enabled refusal: the error, and nothing issued or sent
Refused(r) == r.err = "NotEnabled" /\ r.calls = <<>> /\ r.sent = <<>>

\* C1: ListDir, DeleteFile, GetFile and PutFile, called without their own
\* capability bit (list, remove, get, put), return the not-enabled error, issue
\* no store call whatever the store would have answered, and leave the bucket
\* and the shared state as they were.
C1_GatedVerbsRefuse ==
    [][ ( \/ (last'.op = "ListDir" /\ BitAnd(featureFlags, featureList) = 0)
          \/ (last'.op = "DeleteFile" /\ BitAnd(featureFlags, featureRemove) = 0)
          \/ (last'.op = "GetFile" /\ BitAnd(featureFlags, featureGet) = 0)
          \/ (last'.op = "PutFile" /\ BitAnd(featureFlags, featurePut) = 0) )
        => (Refused(last') /\ store' = store /\ bucketURL' = bucketURL) ]_vars

C1_Witness ==
    /\ last.op = "DeleteFile"
    /\ BitAnd(featureFlags, featureRemove) = 0
    /\ BitAnd(featureFlags, featureRemoveDir) # 0
    /\ ObjectAt(store, last.key) # 0
    /\ Refused(last)

\* C2 (a token is a comma-free stretch of the text between its first and its
\* last non-blank character): parseFeatureSet fails exactly when the text is
\* empty or blank or some token, lower-cased, is none of the eight verbs; when
\* it succeeds, the bit of a verb is set exactly when the verb is among the
\* lower-cased tokens; the default text "ls" gives the list bit alone.
Blank(s) == \A i \in 1..Len(s) : IsSpace(s[i])

TokensOf(s) ==
    LET lo == CHOOSE i \in 1..Len(s) : ~IsSpace(s[i]) /\ \A k \in 1..(i - 1) : IsSpace(s[k])
        hi == CHOOSE i \in 1..Len(s) : ~IsSpace(s[i]) /\ \A k \in (i + 1)..Len(s) : IsSpace(s[k])
    IN  {SubSeq(s, i, j) : <<i, j>> \in
            {ij \in (lo..(hi + 1)) \X ((lo - 1)..hi) :
                /\ ij[2] >= ij[1] - 1
                /\ (ij[1] = lo \/ s[ij[1] - 1] = ",")
                /\ (ij[2] = hi \/ s[ij[2] + 1] = ",")
                /\ \A k \in ij[1]..ij[2] : s[k] # ","}}

VerbBits ==
    {<<W_cd, featureChangeDir>>, <<W_ls, featureList>>, <<W_rmdir, featureRemoveDir>>,
     <<W_rm, featureRemove>>, <<W_mv, featureMove>>, <<W_mkdir, featureMakeDir>>,
     <<W_get, featureGet>>, <<W_put, featurePut>>}

VerbWords == {vb[1] : vb \in VerbBits}

C2_ParseFeatureSet ==
    parsed.err # "pending" =>
        LET listed == IF Blank(featureSet) THEN {} ELSE {ToLower(t) : t \in TokensOf(featureSet)}
        IN  /\ (parsed.err # "nil") <=> (Blank(featureSet) \/ \E w \in listed : w \notin VerbWords)
            /\ parsed.err = "nil" =>
                   \A vb \in VerbBits : (BitAnd(parsed.flags, vb[2]) # 0) <=> (vb[1] \in listed)
            /\ featureSet = DefaultFeatureSet => (parsed.err = "nil" /\ parsed.flags = featureList)

C2_Witness ==
    /\ parsed.err = "nil"
    /\ parsed.flags = featurePut + featureList
    /\ featureSet # ToLower(featureSet)

\* C3: DeleteDir, Rename and MakeDir return the not-enabled error under every
\* capability set (the rmdir, mv and mkdir bits included), issue no store call
\* and change neither the bucket nor the shared URL nor any working path.
C3_UnsupportedVerbsRefuse ==
    [][ last'.op \in {"DeleteDir", "Rename", "MakeDir"}
        => (Refused(last') /\ store' = store /\ bucketURL' = bucketURL /\ cwd' = cwd) ]_vars

C3_Witness ==
    /\ last.op = "Rename"
    /\ BitAnd(featureFlags, featureMove) # 0
    /\ Refused(last)

\* C4: PutFile called with appendMode returns an error and issues no upload,
\* whatever the capability set, the overwrite policy, the data and the bucket;
\* the bucket is as it was.
C4_AppendRefused ==
    [][ (last'.op = "PutFile" /\ last'.append)
        => (last'.err # "nil" /\ ~Issues(last', "Upload") /\ store' = store) ]_vars

C4_Witness ==
    /\ last.op = "PutFile"
    /\ last.append
    /\ last.err = "AppendUnsupported"
    /\ ObjectAt(store, last.key) # 0
    /\ last.data # ObjectAt(store, last.key)

\* C5: when HeadObject answers Stat with NotFound, Stat returns no error and
\* the entry (name = key, pseudo-directory, size 0); when it answers with any
\* other error, that error is what Stat returns.
C5_StatNotFound ==
    (last.op = "Stat" /\ Issues(last, "HeadObject")) =>
        /\ Answered(last, "HeadObject", "NotFound")
               => (last.err = "nil" /\ last.name = last.key /\ last.isPrefix /\ last.size = 0)
        /\ \A e \in AwsFailures :
               Answered(last, "HeadObject", e) => (last.err = "aws" /\ last.code = e)

C5_Witness ==
    /\ last.op = "Stat"
    /\ Answered(last, "HeadObject", "NotFound")
    /\ last.err = "nil"
    /\ last.isPrefix

\* C6 (as claimed; the code does not keep it): with the put capability, data
\* and no append, PutFile under overwrite protection on a key that holds an
\* object returns the conflict error, issues no upload and leaves the object,
\* whatever the existence probe answered; without protection a successful
\* upload replaces the object.
C6_OverwriteProtection ==
    [][ (last'.op = "PutFile" /\ BitAnd(featureFlags, featurePut) # 0
            /\ last'.data # 0 /\ ~last'.append)
        => /\ (noOverwrite /\ ObjectAt(store, last'.key) # 0)
                  => (last'.err = "Conflict" /\ ~Issues(last', "Upload") /\ store' = store)
           /\ (~noOverwrite /\ Answered(last', "Upload", "ok"))
                  => store' = [store EXCEPT ![last'.key] = last'.data] ]_vars

\* C7 (as claimed; the code does not keep it): a ListDir that succeeds hands
\* the callback exactly one entry per distinct immediate child of the prefix,
\* with or without a separator at either end of the prefix, and nothing else: a
\* file entry named by the last path element for every object directly under
\* the prefix, a pseudo-directory entry named by the next path element for the
\* objects further down.
PathElems(p) == SelectSeq(Split(p, "/"), LAMBDA e : e # <<>>)

ChildrenOf(s, prefix) ==
    LET dir == PathElems(prefix)
        under == {k \in DOMAIN s : /\ s[k] # 0
                                   /\ Len(PathElems(k)) > Len(dir)
                                   /\ SubSeq(PathElems(k), 1, Len(dir)) = dir}
    IN  {[name |-> PathElems(k)[Len(dir) + 1], isPrefix |-> Len(PathElems(k)) > Len(dir) + 1] :
            k \in under}

C7_ListDirEachChildOnce ==
    (last.op = "ListDir" /\ last.err = "nil") =>
        LET children == ChildrenOf(store, last.key)
            emitted == [i \in 1..Len(last.entries) |->
                           [name |-> last.entries[i].name, isPrefix |-> last.entries[i].isPrefix]]
        IN  /\ \A i \in 1..Len(emitted) : emitted[i] \in children
            /\ \A ch \in children : Cardinality({i \in 1..Len(emitted) : emitted[i] = ch}) = 1

\* C8 (as claimed; the code does not keep it): ChangeDir(path) returns no error
\* and path is then the working path of that connection, the one fqdn joins
\* the key of the next call to.
C8_ChangeDirRecordsPath ==
    last.op = "ChangeDir" => (last.err = "nil" /\ cwd[last.conn] = last.key)

\* C9 (as claimed; the code does not keep it): what the factory hands to every
\* adapter is never changed: the bucket URL is the one configured, and the URL
\* a call on one connection logs does not depend on calls of other connections.
C9_SharedConfigImmutable ==
    /\ bucketURL = InitialBucketURL
    /\ last.err = "BucketCheckFailed" => last.logURL = URLString(InitialBucketURL)

\* C10: a GetFile whose GetObject succeeded returns size and body of the object
\* and no error, a PutFile whose Upload and size probe succeeded returns the
\* size and no error, whether the sink call succeeded or failed; the sink is
\* called at most once per call, and only after those store calls succeeded.
C10_SinkFailureIgnored ==
    /\ (last.op = "GetFile" /\ Answered(last, "GetObject", "ok"))
           => /\ last.err = "nil"
              /\ last.body = ObjectAt(store, last.key)
              /\ last.size = ContentLength(last.body)
              /\ Len(last.sent) = 1
    /\ (last.op = "PutFile" /\ Answered(last, "Upload", "ok")
            /\ last.answers[Len(last.answers)] = "ok")
           => /\ last.err = "nil"
              /\ last.size = ContentLength(last.data)
              /\ Len(last.sent) = 1
    /\ Len(last.sent) <= 1
    /\ last.sent # <<>>
           => \/ (last.op = "GetFile" /\ last.answers = <<"ok">>)
              \/ (last.op = "PutFile" /\ Answered(last, "Upload", "ok")
                    /\ last.answers[Len(last.answers)] = "ok")

C10_Witness ==
    /\ last.op = "PutFile"
    /\ last.sent # <<>>
    /\ last.sent[1].result = "failed"
    /\ last.err = "nil"
    /\ last.size = ContentLength(last.data)

\* Sign has signed the request
Signed(r) == r.stringToSign # <<>>

\* the lines of the string that was signed, and the last of them
SignedLines(r) == Split(r.stringToSign, "\n")
SignedResource(r) == SignedLines(r)[Len(SignedLines(r))]

\* what follows the first question mark of t
RECURSIVE AfterQuestionMark(_)
AfterQuestionMark(t) ==
    IF t = <<>> THEN <<>>
    ELSE IF Head(t) = "?" THEN Tail(t)
    ELSE AfterQuestionMark(Tail(t))

\* the keys of the header whose lower-cased name starts with the vendor prefix
VendorKeys(h) == {k \in DOMAIN h : HasPrefix(ToLower(k), VendorPrefix)}

\* the first value stored under key k, empty when there is none
FirstValue(h, k) == IF k \in DOMAIN h THEN h[k][1] ELSE <<>>

\* C11: the string that is signed is, joined by newlines, the method, the
\* Content-MD5 value, the Content-Type value (each empty if absent), an empty
\* line, one line name:value for every header of the request whose lower-cased
\* name starts with x-amz- (the date header that Sign set included), in
\* ascending order of the names, and the canonical resource; the Authorization
\* header is "AWS ", the access key, ":" and the HMAC of that string under the
\* secret key.  Nothing of this depends on the order in which the header map
\* was visited.
C11_CanonicalString ==
    Signed(req) =>
        LET h == req.header
            parts == SignedLines(req)
            n == Cardinality(VendorKeys(h))
            lines == SubSeq(parts, 5, 4 + n)
            NameOf(line) == Split(line, ":")[1]
        IN  /\ Len(parts) = n + 5
            /\ parts[1] = req.method
            /\ parts[2] = FirstValue(h, <<"C","o","n","t","e","n","t","-","M","d","5">>)
            /\ parts[3] = FirstValue(h, <<"C","o","n","t","e","n","t","-","T","y","p","e">>)
            /\ parts[4] = <<>>
            /\ \A k \in VendorKeys(h) :
                   \E i \in 1..n : lines[i] = ToLower(k) \o <<":">> \o StringsJoin(h[k], <<",">>)
            /\ \A i, j \in 1..n : i < j => StrLess(NameOf(lines[i]), NameOf(lines[j]))
            /\ \E i \in 1..n : lines[i] = H_Date \o <<":">> \o TimeFormat(req.time)
            /\ parts[n + 5] = CanonicalResource(req)
            /\ h[H_Authorization] =
                   << <<"A", "W", "S", " ">> \o req.cred.access \o <<":">>
                      \o HmacSha1Base64(req.cred.secret, req.stringToSign) >>

\* a signed request with a session token, a vendor header of two values among
\* at least three vendor headers, and a content type
C11_Witness ==
    /\ Signed(req)
    /\ req.cred.token # <<>>
    /\ Cardinality(VendorKeys(req.header)) >= 3
    /\ \E k \in VendorKeys(req.header) : Len(req.header[k]) = 2
    /\ <<"C","o","n","t","e","n","t","-","T","y","p","e">> \in DOMAIN req.header

\* the path that was signed: the canonical resource without its query suffix
SignedPathOf(r) == BeforeQuestionMark(SignedResource(r))

\* t, or "/" when t is empty
SlashIfEmpty(t) == IF t = <<>> THEN <<"/">> ELSE t

\* the part of the host name before its first dot (all of it when it has none)
HostLabel(host) ==
    CHOOSE l \in {SubSeq(host, 1, i) : i \in 0..Len(host)} :
        /\ ~Contains(l, ".")
        /\ l = host \/ host[Len(l) + 1] = "."

\* C12 (as claimed; the code does not keep it): the path that is signed is the
\* path of the request URL (/<bucket>/<object-path> with path-style addressing,
\* the object path alone when the bucket is in the host name), escaped or as
\* it is, with nothing in front of it; an empty path is signed as "/".
C12_ResourcePath ==
    Signed(req) =>
        SignedPathOf(req) \in {SlashIfEmpty(SignedURI(req)), SlashIfEmpty(EscapePath(SignedURI(req)))}

\* C12 (amended): with path-style addressing the path that is signed is the
\* escaped path of the request URL, "/" when that is empty; without it, it is
\* "/", the first label of the host name, and the path of the request URL as
\* it is (not escaped).
C12_ResourcePathAmended ==
    Signed(req) =>
        IF req.pathStyle
        THEN SignedPathOf(req) = SlashIfEmpty(EscapePath(SignedURI(req)))
        ELSE SignedResource(req) =
                 <<"/">> \o HostLabel(req.host) \o SignedURI(req)
                 \o (IF SignedQuery(req.query) # <<>> THEN <<"?">> \o SignedQuery(req.query) ELSE <<>>)

\* a request signed without path-style addressing whose object path holds a
\* character that escaping would change
C12_Witness ==
    /\ Signed(req)
    /\ ~req.pathStyle
    /\ req.opaque = <<>>
    /\ Contains(req.path, " ")
    /\ Contains(req.host, ".")

\* the whitelist as the specification lists it
ListedSubresources ==
    <<<<"a", "c", "l">>,
      <<"l", "i", "f", "e", "c", "y", "c", "l", "e">>,
      <<"l", "o", "c", "a", "t", "i", "o", "n">>,
      <<"l", "o", "g", "g", "i", "n", "g">>,
      <<"n", "o", "t", "i", "f", "i", "c", "a", "t", "i", "o", "n">>,
      <<"p", "a", "r", "t", "N", "u", "m", "b", "e", "r">>,
      <<"p", "o", "l", "i", "c", "y">>,
      <<"r", "e", "q", "u", "e", "s", "t", "P", "a", "y", "m", "e", "n", "t">>,
      <<"t", "o", "r", "r", "e", "n", "t">>,
      <<"u", "p", "l", "o", "a", "d", "I", "d">>,
      <<"u", "p", "l", "o", "a", "d", "s">>,
      <<"v", "e", "r", "s", "i", "o", "n", "I", "d">>,
      <<"v", "e", "r", "s", "i", "o", "n", "i", "n", "g">>,
      <<"v", "e", "r", "s", "i", "o", "n", "s">>,
      <<"w", "e", "b", "s", "i", "t", "e">>>>

\* the query suffix for a whitelist: its names that the request carries, in the
\* order of the whitelist, each as key or key=value with the first value the
\* request gives it
SuffixItems(whitelist, q, Enc(_)) ==
    LET present == SelectSeq(whitelist, LAMBDA k : QueryHas(q, k))
    IN  [i \in 1..Len(present) |->
            present[i] \o (IF QueryGet(q, present[i]) = <<>> THEN <<>>
                           ELSE <<"=">> \o Enc(QueryGet(q, present[i])))]

AsItIs(t) == t
PercentEncoded(t) == ReplacePlus(QueryEscape(t))

\* the request has a query suffix exactly when SuffixItems is not empty
HasSuffix(r) == Contains(SignedResource(r), "?")

\* C13 (as claimed; the code does not keep it): the query suffix that is signed
\* holds exactly the parameters named in the listed whitelist, in its order,
\* as key or key=value (the value encoded or as it is), joined by "&", and
\* there is no suffix when the request carries none of them.
C13_QuerySuffix ==
    Signed(req) =>
        LET suffix == AfterQuestionMark(SignedResource(req))
        IN  \E items \in {SuffixItems(ListedSubresources, req.query, AsItIs),
                          SuffixItems(ListedSubresources, req.query, PercentEncoded)} :
                /\ HasSuffix(req) <=> items # <<>>
                /\ suffix = StringsJoin(items, <<"&">>)

\* C13 (amended): the same for the whitelist acl, delete, lifecycle, location,
\* logging, notification, partNumber, policy, requestPayment, torrent,
\* uploadId, uploads, versionId, versioning, versions, website, with the value
\* percent-encoded (a space as %20).
C13_QuerySuffixAmended ==
    Signed(req) =>
        LET suffix == AfterQuestionMark(SignedResource(req))
            items == SuffixItems(
                <<<<"a", "c", "l">>,
                  <<"d", "e", "l", "e", "t", "e">>,
                  <<"l", "i", "f", "e", "c", "y", "c", "l", "e">>,
                  <<"l", "o", "c", "a", "t", "i", "o", "n">>,
                  <<"l", "o", "g", "g", "i", "n", "g">>,
                  <<"n", "o", "t", "i", "f", "i", "c", "a", "t", "i", "o", "n">>,
                  <<"p", "a", "r", "t", "N", "u", "m", "b", "e", "r">>,
                  <<"p", "o", "l", "i", "c", "y">>,
                  <<"r", "e", "q", "u", "e", "s", "t", "P", "a", "y", "m", "e", "n", "t">>,
                  <<"t", "o", "r", "r", "e", "n", "t">>,
                  <<"u", "p", "l", "o", "a", "d", "I", "d">>,
                  <<"u", "p", "l", "o", "a", "d", "s">>,
                  <<"v", "e", "r", "s", "i", "o", "n", "I", "d">>,
                  <<"v", "e", "r", "s", "i", "o", "n", "i", "n", "g">>,
                  <<"v", "e", "r", "s", "i", "o", "n", "s">>,
                  <<"w", "e", "b", "s", "i", "t", "e">>>>,
                req.query, PercentEncoded)
        IN  /\ HasSuffix(req) <=> items # <<>>
            /\ suffix = StringsJoin(items, <<"&">>)
            /\ Len(items) <= Len(req.query)

\* a signed request that names uploadId, with a space in its value, before
\* delete
C13_Witness ==
    /\ Signed(req)
    /\ Len(req.query) = 2
    /\ req.query[1] = [k |-> <<"u", "p", "l", "o", "a", "d", "I", "d">>, v |-> <<"a", " ", "b">>]
    /\ req.query[2].k = <<"d", "e", "l", "e", "t", "e">>

\* C14 (as claimed; the code does not keep it): Stat on a key for which
\* HeadObject succeeds returns name = key, the content length of the object as
\* size and the pseudo-directory flag unset; over all entries Stat returns, the
\* flag is set exactly for keys that hold no object.
C14_StatRealObject ==
    /\ (last.op = "Stat" /\ Answered(last, "HeadObject", "ok"))
           => /\ last.err = "nil"
              /\ last.name = last.key
              /\ last.size = ContentLength(ObjectAt(store, last.key))
              /\ ~last.isPrefix
    /\ (last.op = "Stat" /\ last.err = "nil")
           => (last.isPrefix <=> ObjectAt(store, last.key) = 0)

\* C16: a PutFile whose Upload succeeded and whose size probe then failed
\* returns size -1 and an error, has stored the object under key and has sent
\* no put metric; a PutFile that returns any other error (not enabled, nil
\* data, append mode, conflict, upload failure) has left the bucket as it was
\* and has sent no metric.
C16_PutNotAllOrNothing ==
    [][ (last'.op = "PutFile" /\ last'.err # "nil")
        => /\ last'.sent = <<>>
           /\ last'.size = -1
           /\ IF Answered(last', "Upload", "ok")
              THEN /\ last'.err = "SizeFailed"
                   /\ last'.answers[Len(last'.answers)] # "ok"
                   /\ store' = [store EXCEPT ![last'.key] = last'.data]
              ELSE /\ last'.err \in {"NotEnabled", "EmptyData", "AppendUnsupported",
                                     "Conflict", "UploadFailed"}
                   /\ store' = store ]_vars

C16_Witness ==
    /\ last.op = "PutFile"
    /\ last.err = "SizeFailed"
    /\ last.size = -1
    /\ Answered(last, "Upload", "ok")
    /\ store[last.key] = last.data
    /\ last.sent = <<>>

\* C15: overwrite protection is check-then-act.  The existence probe is the
\* only test: a connection whose probe found no object goes on to Upload, a
\* successful Upload stores its data under the key whatever is stored there by
\* then, protection enabled or not, and the PutFile returns success when its
\* size probe succeeds.  (The witness is the interleaving of the claim.)
C15_CheckThenAct ==
    [][ \A c \in Conns :
          /\ (put[c].pc = "probe" /\ put'[c].pc = "upload") => ~objectExists(put'[c].probe)
          /\ (put[c].pc = "upload" /\ put'[c].pc = "size")
                => /\ store' = [store EXCEPT ![put[c].key] = put[c].data]
                   /\ put'[c].replaced = store[put[c].key]
          /\ (put[c].pc = "size" /\ put'[c].pc = "done"
                /\ put'[c].ret.answers[Len(put'[c].ret.answers)] = "ok")
                => /\ put'[c].ret.err = "nil"
                   /\ put'[c].ret.size = ContentLength(store[put[c].key]) ]_vars

\* both connections probed the absent key before either uploaded, both
\* returned success, and the object of connection 1 was replaced by that of 2
C15_Witness ==
    /\ noOverwrite
    /\ put[1].pc = "done" /\ put[2].pc = "done"
    /\ put[1].key = put[2].key
    /\ put[1].probe = "NotFound" /\ put[2].probe = "NotFound"
    /\ put[1].ret.err = "nil" /\ put[2].ret.err = "nil"
    /\ put[1].replaced = 0
    /\ put[2].replaced = put[1].data
    /\ put[1].data # put[2].data
    /\ store[put[2].key] = put[2].data

=============================================================================
